---- MODULE Spec2Model ----
(***************************************************************************)
(* A model of the Hyperfleet guest init (src/guest/init.c): the PID-1       *)
(* main thread (main_loop, reap_zombies, do_shutdown), the vsock listener   *)
(* thread (vsock_server), the per-connection handler threads                *)
(* (handle_connection, handle_exec), the exec children and the signals      *)
(* delivered to PID 1.                                                      *)
(***************************************************************************)
EXTENDS Integers, Sequences, FiniteSets, TLC

(***************************************************************************)
(* Bounds of the model.                                                    *)
(***************************************************************************)
\* connections the listener accepts in one run
MaxConn == 1
\* value at which the modelled difference time(NULL) - start saturates
MaxElapsed == 2

Conns == 1..MaxConn

(***************************************************************************)
(* Program constants.                                                      *)
(***************************************************************************)
\* the descriptor number socket() returns to the listener thread
LISTEN_FD == 3
SIGTERM == 15
SIGKILL == 9

VARIABLES
    shutdown_requested,  \* init.c:57
    reboot_requested,    \* init.c:58
    obs,                 \* what was observed of the two flags (history)
    vsock_fd,            \* init.c:826
    lsock,               \* kernel state of the listener's socket
    lpc,                 \* position of the listener thread (vsock_server)
    lcur,                \* connection the listener holds between accept and spawn
    mpc,                 \* position of the main thread
    do_reboot,           \* argument of do_shutdown (init.c:896)
    steps,               \* shutdown steps completed so far, in order
    reboot_arg,          \* argument the reboot primitive was invoked with
    final,               \* how the process ended
    hs,                  \* handler threads, one per connection
    ch,                  \* exec children, one per connection
    tm,                  \* one supervision loop against the wall clock
    rd,                  \* one request read by handle_connection
    fn                   \* one function or loop of the program on its own

sigv  == << shutdown_requested, reboot_requested, obs >>
lisv  == << vsock_fd, lsock, lpc, lcur >>
mainv == << mpc, do_reboot, steps, reboot_arg, final >>
hv    == << hs, ch >>
auxv  == << tm, rd, fn >>
vars  == << sigv, lisv, mainv, hv, auxv >>

Alive == final = "none"

(***************************************************************************)
(* Pure helpers.                                                           *)
(***************************************************************************)
\* C integer division by a positive divisor (truncates toward zero)
CDiv(a, b) == IF a >= 0 THEN a \div b ELSE -((-a) \div b)

\* the timeout test of the supervision loop, init.c:707:
\*   time(NULL) - start > timeout_ms / 1000
TimedOut(elapsed, timeout_ms) == elapsed > CDiv(timeout_ms, 1000)

\* wait statuses as waitpid reports them
ExitStatus(code) == code * 256
SigStatus(sig) == sig
WIFEXITED(status) == status % 128 = 0
WEXITSTATUS(status) == (status \div 256) % 256

\* init.c:722
ExitCode(status) == IF WIFEXITED(status) THEN WEXITSTATUS(status) ELSE -1

\* a response envelope: the success flag, the error text or data kind, and
\* the exit code an exec response carries ({c}; NoCode elsewhere)
NoCode == {}
Resp(ok, tag, code) == [ok |-> ok, tag |-> tag, code |-> code]
NullResp == Resp(FALSE, "NULL", NoCode)
ErrResp(msg) == Resp(FALSE, msg, NoCode)
OomResp == ErrResp("out of memory")

\* the responses of handle_connection's dispatch that need no handler of
\* their own, init.c:769-811
Dispatch(op) ==
    CASE op = "none" -> ErrResp("missing operation")
      [] op = "ping" -> Resp(TRUE, "pong", NoCode)
      [] OTHER       -> ErrResp("unknown operation")

(***************************************************************************)
(* Inputs.                                                                 *)
(***************************************************************************)
\* "none": the request has no operation field
Ops == {"none", "ping", "frobnicate", "exec"}
\* the cmd field of an exec request
Cmds == {"missing", "not_array", "empty", "argv"}
\* the timeout field of an exec request, in milliseconds
Timeouts == {0, 1500}
\* the exit statuses an exec child may end with by itself
ExitCodes == {0, 3}

PipeEnds == {"out_r", "out_w", "err_r", "err_w"}

IdleHandler ==
    [pc |-> "idle", op |-> "none", cmd |-> "missing", tmo |-> 0, elapsed |-> 0,
     status |-> 0, pipes |-> {}, forked |-> FALSE, bufs |-> FALSE,
     exit_code |-> NoCode,
     resp |-> NullResp, ev |-> << >>]

NoChild == [st |-> "none", status |-> 0, pending |-> 0, by |-> "none"]

\* the supervision loop and the request read looked at on their own
TmOff == [pc |-> "off", t0 |-> 0, wall |-> 0, field |-> {}, tmo |-> 0,
          polled |-> FALSE, killed_at |-> 0]
RdOff == [pc |-> "off", len |-> 0, nl |-> 0, total |-> 0, reads |-> 0,
          eof |-> FALSE, resp |-> [ok |-> FALSE, tag |-> "NULL", code |-> {}]]
FnOff == [unit |-> "off"]

\* no signal has been delivered and main_loop has not returned
NoObs == [first |-> "none", at_return |-> {}]

(***************************************************************************)
(* The state after main() has started the listener thread, init.c:976-982. *)
(***************************************************************************)
Init ==
    /\ shutdown_requested = 0
    /\ reboot_requested = 0
    /\ obs = NoObs
    /\ vsock_fd = -1
    /\ lsock = "none"
    /\ lpc \in {"socket", "done"}      \* pthread_create may fail, init.c:976
    /\ lcur = 0
    /\ mpc = "loop"
    /\ do_reboot = FALSE
    /\ steps = << >>
    /\ reboot_arg = "none"
    /\ final = "none"
    /\ hs = [h \in Conns |-> IdleHandler]
    /\ ch = [h \in Conns |-> NoChild]
    /\ tm = TmOff
    /\ rd = RdOff
    /\ fn = FnOff

(***************************************************************************)
(* Signals delivered to PID 1, init.c:254-262.                             *)
(***************************************************************************)
handle_sigterm ==
    /\ Alive
    /\ shutdown_requested' = 1
    /\ obs' = [obs EXCEPT !.first = IF @ = "none" THEN "SIGTERM" ELSE @]
    /\ UNCHANGED << reboot_requested, lisv, mainv, hv, auxv >>

handle_sigint ==
    /\ Alive
    /\ reboot_requested' = 1
    /\ obs' = [obs EXCEPT !.first = IF @ = "none" THEN "SIGINT" ELSE @]
    /\ UNCHANGED << shutdown_requested, lisv, mainv, hv, auxv >>

(***************************************************************************)
(* The listener thread, vsock_server, init.c:828-880.                      *)
(***************************************************************************)
\* close(fd) of the listener's socket: a thread blocked in accept on it keeps
\* the socket alive until its accept returns
AfterClose(pc) == IF pc = "in_accept" THEN "lingering" ELSE "closed"

\* init.c:831-835
LSocket ==
    /\ Alive /\ lpc = "socket"
    /\ \/ /\ vsock_fd' = LISTEN_FD
          /\ lsock' = "open"
          /\ lpc' = "bind"
       \/ /\ vsock_fd' = -1
          /\ lpc' = "done"
          /\ UNCHANGED lsock
    /\ UNCHANGED << lcur, sigv, mainv, hv, auxv >>

\* init.c:843-848; bind on a number that names no socket fails
LBind ==
    /\ Alive /\ lpc = "bind"
    /\ \/ /\ vsock_fd >= 0 /\ lsock = "open"
          /\ lsock' = "bound"
          /\ lpc' = "listen"
          /\ UNCHANGED vsock_fd
       \/ /\ lsock' = IF vsock_fd >= 0 THEN "closed" ELSE lsock
          /\ vsock_fd' = -1
          /\ lpc' = "done"
    /\ UNCHANGED << lcur, sigv, mainv, hv, auxv >>

\* init.c:850-855; listen on a number that names no socket fails
LListen ==
    /\ Alive /\ lpc = "listen"
    /\ \/ /\ vsock_fd >= 0 /\ lsock = "bound"
          /\ lsock' = "listening"
          /\ lpc' = "loop"
          /\ UNCHANGED vsock_fd
       \/ /\ lsock' = IF vsock_fd >= 0 THEN "closed" ELSE lsock
          /\ vsock_fd' = -1
          /\ lpc' = "done"
    /\ UNCHANGED << lcur, sigv, mainv, hv, auxv >>

\* init.c:859
LLoop ==
    /\ Alive /\ lpc = "loop"
    /\ lpc' = IF shutdown_requested = 0 /\ reboot_requested = 0
              THEN "accept" ELSE "done"
    /\ UNCHANGED << vsock_fd, lsock, lcur, sigv, mainv, hv, auxv >>

\* init.c:863, the call: accept on a closed descriptor fails at once
LAccept ==
    /\ Alive /\ lpc = "accept"
    /\ lpc' = IF vsock_fd >= 0 /\ lsock = "listening" THEN "in_accept" ELSE "loop"
    /\ UNCHANGED << vsock_fd, lsock, lcur, sigv, mainv, hv, auxv >>

\* init.c:863, accept returns a connection
LAcceptConn(h) ==
    /\ Alive /\ lpc = "in_accept"
    /\ lsock \in {"listening", "lingering"}
    /\ hs[h].pc = "idle"
    /\ \A g \in Conns : g < h => hs[g].pc # "idle"
    /\ hs' = [hs EXCEPT ![h].pc = "accepted"]
    /\ lcur' = h
    /\ lpc' = "spawn"
    /\ lsock' = IF lsock = "lingering" THEN "closed" ELSE lsock
    /\ UNCHANGED << vsock_fd, ch, sigv, mainv, auxv >>

\* init.c:864-868, accept fails (EINTR or another error)
LAcceptErr ==
    /\ Alive /\ lpc = "in_accept"
    /\ lpc' = "loop"
    /\ lsock' = IF lsock = "lingering" THEN "closed" ELSE lsock
    /\ UNCHANGED << vsock_fd, lcur, sigv, mainv, hv, auxv >>

\* init.c:870-876
LSpawn ==
    /\ Alive /\ lpc = "spawn"
    /\ \/ hs' = [hs EXCEPT ![lcur].pc = "start"]
       \/ hs' = [hs EXCEPT ![lcur].pc = "dropped",
                           ![lcur].ev = << "close_by_listener" >>]
    /\ lpc' = "loop"
    /\ lcur' = 0
    /\ UNCHANGED << vsock_fd, lsock, ch, sigv, mainv, auxv >>

Listener ==
    \/ LSocket \/ LBind \/ LListen \/ LLoop \/ LAccept
    \/ (\E h \in Conns : LAcceptConn(h))
    \/ LAcceptErr \/ LSpawn

(***************************************************************************)
(* Exec children and the kernel's part in their life.                      *)
(***************************************************************************)
Zombies == {h \in Conns : ch[h].st = "zombie"}
Running == {h \in Conns : ch[h].st = "running"}

\* kill(pid, sig) seen from the child: a running child gets the signal
\* pending; a child already dying of a signal dies of that one, and a zombie
\* or an already reaped child is not affected
Signalled(c, sig) ==
    IF c.st = "running" /\ c.pending = 0
    THEN [c EXCEPT !.pending = sig] ELSE c

\* waitpid collects a zombie
Reaped(c, who) == [c EXCEPT !.st = "reaped", !.by = who]

\* the child ends by itself: _exit(127) after both execve failed
\* (init.c:660), or the exit of the program it runs
ChildExit(h) ==
    /\ Alive
    /\ ch[h].st = "running" /\ ch[h].pending = 0
    /\ \E c \in ExitCodes :
         ch' = [ch EXCEPT ![h].st = "zombie", ![h].status = ExitStatus(c)]
    /\ UNCHANGED << hs, sigv, lisv, mainv, auxv >>

\* the child is terminated by the signal pending for it
ChildDie(h) ==
    /\ Alive
    /\ ch[h].st = "running" /\ ch[h].pending # 0
    /\ ch' = [ch EXCEPT ![h].st = "zombie", ![h].pending = 0,
                        ![h].status = SigStatus(ch[h].pending)]
    /\ UNCHANGED << hs, sigv, lisv, mainv, auxv >>

(***************************************************************************)
(* The main thread: main_loop and reap_zombies, init.c:883-893, 937-942.   *)
(***************************************************************************)
\* init.c:938
MLoop ==
    /\ Alive /\ mpc = "loop"
    /\ mpc' = IF shutdown_requested = 0 /\ reboot_requested = 0
              THEN "reap" ELSE "main_ret"
    /\ obs' = IF shutdown_requested = 0 /\ reboot_requested = 0
              THEN obs ELSE [obs EXCEPT !.at_return = {reboot_requested}]
    /\ UNCHANGED << do_reboot, steps, reboot_arg, final,
                    shutdown_requested, reboot_requested, lisv, hv, auxv >>

\* init.c:886, waitpid(-1, &status, WNOHANG) returns a child
MReapOne(h) ==
    /\ Alive /\ mpc = "reap"
    /\ h \in Zombies
    /\ ch' = [ch EXCEPT ![h] = Reaped(ch[h], "main")]
    /\ UNCHANGED << hs, sigv, lisv, mainv, auxv >>

\* init.c:886, waitpid returns no child; init.c:940
MReapNone ==
    /\ Alive /\ mpc = "reap"
    /\ Zombies = {}
    /\ mpc' = "loop"
    /\ UNCHANGED << do_reboot, steps, reboot_arg, final,
                    sigv, lisv, hv, auxv >>

\* main passes the other flag to do_shutdown
MCallShutdownOtherFlag ==
    /\ Alive /\ mpc = "main_ret"
    /\ do_reboot' = (shutdown_requested # 0)
    /\ mpc' = "close_listener"
    /\ UNCHANGED << steps, reboot_arg, final, sigv, lisv, hv, auxv >>

\* init.c:984, main evaluates reboot_requested and calls do_shutdown
MCallShutdown ==
    /\ Alive /\ mpc = "main_ret"
    /\ do_reboot' = (reboot_requested # 0)
    /\ mpc' = "close_listener"
    /\ UNCHANGED << steps, reboot_arg, final, sigv, lisv, hv, auxv >>

(***************************************************************************)
(* do_shutdown, init.c:896-934.                                            *)
(***************************************************************************)
UmountTargets == << "/tmp", "/run", "/dev/pts", "/dev", "/sys", "/proc" >>

\* init.c:899-900: the test of vsock_fd and, when it holds a descriptor,
\* close(vsock_fd); nothing is closed when it holds none
ShCloseListener ==
    /\ Alive /\ mpc = "close_listener"
    /\ IF vsock_fd >= 0
       THEN /\ lsock' = IF lsock = "closed" THEN lsock ELSE AfterClose(lpc)
            /\ steps' = Append(steps, "close_listener")
            /\ mpc' = "clear_fd"
       ELSE /\ mpc' = "sigterm"
            /\ UNCHANGED << lsock, steps >>
    /\ UNCHANGED << vsock_fd, lpc, lcur, do_reboot, reboot_arg, final,
                    sigv, hv, auxv >>

\* init.c:901: vsock_fd = -1, a store of its own after the close
ShClearFd ==
    /\ Alive /\ mpc = "clear_fd"
    /\ vsock_fd' = -1
    /\ mpc' = "sigterm"
    /\ UNCHANGED << lsock, lpc, lcur, do_reboot, steps, reboot_arg, final,
                    sigv, hv, auxv >>

\* init.c:905, kill(-1, SIGTERM); a child may ignore or handle SIGTERM
ShSigterm ==
    /\ Alive /\ mpc = "sigterm"
    /\ \E S \in SUBSET Running :
         ch' = [h \in Conns |->
                  IF h \in S THEN Signalled(ch[h], SIGTERM) ELSE ch[h]]
    /\ steps' = Append(steps, "sigterm")
    /\ mpc' = "sleep"
    /\ UNCHANGED << hs, do_reboot, reboot_arg, final,
                    sigv, lisv, auxv >>

\* init.c:906
ShSleep ==
    /\ Alive /\ mpc = "sleep"
    /\ steps' = Append(steps, "sleep")
    /\ mpc' = "sigkill"
    /\ UNCHANGED << do_reboot, reboot_arg, final,
                    sigv, lisv, hv, auxv >>

\* init.c:909, kill(-1, SIGKILL)
ShSigkill ==
    /\ Alive /\ mpc = "sigkill"
    /\ ch' = [h \in Conns |-> Signalled(ch[h], SIGKILL)]
    /\ steps' = Append(steps, "sigkill")
    /\ mpc' = "reap_final"
    /\ UNCHANGED << hs, do_reboot, reboot_arg, final,
                    sigv, lisv, auxv >>

\* init.c:910, waitpid(-1, NULL, WNOHANG) returns a child
ShReapOne(h) ==
    /\ Alive /\ mpc = "reap_final"
    /\ h \in Zombies
    /\ ch' = [ch EXCEPT ![h] = Reaped(ch[h], "shutdown")]
    /\ UNCHANGED << hs, sigv, lisv, mainv, auxv >>

\* init.c:910, waitpid returns no child: the loop ends
ShReapDone ==
    /\ Alive /\ mpc = "reap_final"
    /\ Zombies = {}
    /\ steps' = Append(steps, "reap")
    /\ mpc' = "sync1"
    /\ UNCHANGED << do_reboot, reboot_arg, final,
                    sigv, lisv, hv, auxv >>

\* init.c:913: sync() returns
ShSync1 ==
    /\ Alive /\ mpc = "sync1"
    /\ steps' = Append(steps, "sync")
    /\ mpc' = "umount"
    /\ UNCHANGED << do_reboot, reboot_arg, final,
                    sigv, lisv, hv, auxv >>

\* the umount2 calls made so far
Unmounted ==
    Cardinality({i \in DOMAIN steps :
                   \E j \in DOMAIN UmountTargets : steps[i] = UmountTargets[j]})

\* init.c:916-921: the next umount2(target, MNT_DETACH) in the order of the
\* code; its result is not looked at
ShUmount ==
    /\ Alive /\ mpc = "umount"
    /\ steps' = Append(steps, UmountTargets[Unmounted + 1])
    /\ mpc' = IF Unmounted + 1 = Len(UmountTargets) THEN "sync2" ELSE "umount"
    /\ UNCHANGED << do_reboot, reboot_arg, final,
                    sigv, lisv, hv, auxv >>

\* init.c:923: the second sync() returns
ShSync2 ==
    /\ Alive /\ mpc = "sync2"
    /\ steps' = Append(steps, "sync")
    /\ mpc' = "reboot"
    /\ UNCHANGED << do_reboot, reboot_arg, final,
                    sigv, lisv, hv, auxv >>

\* init.c:925-931; reboot() ends the machine, or fails and returns
ShReboot ==
    /\ Alive /\ mpc = "reboot"
    /\ reboot_arg' = IF do_reboot THEN "RB_AUTOBOOT" ELSE "RB_POWER_OFF"
    /\ steps' = Append(steps, "reboot")
    /\ \/ /\ final' = IF do_reboot THEN "reboot" ELSE "poweroff"
          /\ mpc' = "halted"
       \/ /\ mpc' = "exit"
          /\ UNCHANGED final
    /\ UNCHANGED << do_reboot, sigv, lisv, hv, auxv >>

\* init.c:933
ShExit ==
    /\ Alive /\ mpc = "exit"
    /\ final' = "exit"
    /\ mpc' = "halted"
    /\ UNCHANGED << do_reboot, steps, reboot_arg, sigv, lisv, hv, auxv >>

MainThread ==
    \/ MLoop \/ (\E h \in Conns : MReapOne(h)) \/ MReapNone \/ MCallShutdown
    \/ ShCloseListener \/ ShClearFd \/ ShSigterm \/ ShSleep \/ ShSigkill
    \/ (\E h \in Conns : ShReapOne(h)) \/ ShReapDone
    \/ ShSync1 \/ ShUmount \/ ShSync2 \/ ShReboot \/ ShExit

(***************************************************************************)
(* A handler thread: handle_connection, init.c:743-823, and handle_exec,   *)
(* init.c:554-740.                                                         *)
(***************************************************************************)
\* init.c:813-816: the handler of the operation has returned its response,
\* which is written when there is one
Finish(r, resp) ==
    [r EXCEPT !.resp = resp,
              !.pc = IF resp = NullResp THEN "close" ELSE "write"]

\* init.c:716-739: the loop is over; close the read ends, compute the exit
\* code, build the response (asprintf, then strdup, may fail)
Collect(r, status) ==
    { Finish([r EXCEPT !.status = status, !.elapsed = 0,
                       !.pipes = @ \ {"out_r", "err_r"},
                       !.exit_code = {ExitCode(status)}], resp) :
        resp \in {Resp(TRUE, "exec", {ExitCode(status)}), OomResp, NullResp} }

\* init.c:746-811 for every operation but exec, and up to the call of
\* handle_exec for exec
HStart(h) ==
    /\ Alive /\ hs[h].pc = "start"
    /\ \/ hs' = [hs EXCEPT ![h].pc = "done", ![h].ev = << "close" >>]
       \/ \E op \in Ops \ {"exec"} : \E resp \in {Dispatch(op), NullResp} :
            hs' = [hs EXCEPT ![h] =
                     Finish([@ EXCEPT !.op = op, !.ev = << "read", "parse" >>], resp)]
       \/ \E cmd \in Cmds :
            hs' = [hs EXCEPT ![h].op = "exec", ![h].cmd = cmd,
                             ![h].ev = << "read", "parse" >>, ![h].pc = "exec"]
    /\ UNCHANGED << ch, sigv, lisv, mainv, auxv >>

\* init.c:560-612: the cmd field is missing, no array, or empty
HExecBadCmd(h) ==
    /\ Alive /\ hs[h].pc = "exec" /\ hs[h].cmd # "argv"
    /\ \E resp \in {ErrResp(CASE hs[h].cmd = "missing" -> "missing cmd"
                              [] hs[h].cmd = "not_array" -> "cmd must be an array"
                              [] OTHER -> "empty command"), NullResp} :
         hs' = [hs EXCEPT ![h] = Finish(@, resp)]
    /\ UNCHANGED << ch, sigv, lisv, mainv, auxv >>

\* init.c:617-629: pipe() or fork() fails
HExecNoFork(h) ==
    /\ Alive /\ hs[h].pc = "exec" /\ hs[h].cmd = "argv"
    /\ \E how \in {"pipe1", "pipe2", "fork"} : \E alloc \in BOOLEAN :
         hs' = [hs EXCEPT ![h] =
                  Finish([@ EXCEPT !.pipes = IF how = "pipe2"
                                             THEN {"out_r", "out_w"} ELSE {}],
                         IF ~alloc THEN NullResp
                         ELSE IF how = "fork" THEN ErrResp("fork failed")
                         ELSE ErrResp("pipe failed"))]
    /\ UNCHANGED << ch, sigv, lisv, mainv, auxv >>

\* init.c:614-666: the timeout field is read, both pipes are made, fork
\* succeeds, the parent closes the write ends
HExecFork(h) ==
    /\ Alive /\ hs[h].pc = "exec" /\ hs[h].cmd = "argv"
    /\ \E tmo \in Timeouts :
         hs' = [hs EXCEPT ![h].tmo = tmo, ![h].forked = TRUE,
                          ![h].pipes = PipeEnds \ {"out_w", "err_w"},
                          ![h].pc = "alloc"]
    /\ ch' = [ch EXCEPT ![h] = [NoChild EXCEPT !.st = "running"]]
    /\ UNCHANGED << sigv, lisv, mainv, auxv >>

\* init.c:672-688: the output buffers are allocated and start is taken
HAllocOk(h) ==
    /\ Alive /\ hs[h].pc = "alloc"
    /\ hs' = [hs EXCEPT ![h].bufs = TRUE, ![h].elapsed = 0, ![h].status = 0,
                        ![h].pc = "loop"]
    /\ UNCHANGED << ch, sigv, lisv, mainv, auxv >>

\* init.c:676-681: an output buffer is not allocated
HAllocFail(h) ==
    /\ Alive /\ hs[h].pc = "alloc"
    /\ hs' = [hs EXCEPT ![h].pipes = @ \ {"out_r", "err_r"}, ![h].pc = "oom_wait"]
    /\ ch' = [ch EXCEPT ![h] = Signalled(@, SIGKILL)]
    /\ UNCHANGED << sigv, lisv, mainv, auxv >>

\* init.c:682-683: waitpid(pid, NULL, 0) returns, with the child, with
\* ECHILD when the main thread has reaped it, or with EINTR and the child
\* still running when a signal is handled in this thread (the handlers are
\* installed without SA_RESTART, init.c:272-285); the result is not looked at
HOomWait(h) ==
    /\ Alive /\ hs[h].pc = "oom_wait"
    /\ ch[h].st \in {"zombie", "reaped", "running"}
    /\ ch' = [ch EXCEPT ![h] = IF @.st = "zombie" THEN Reaped(@, "sup") ELSE @]
    /\ \E resp \in {OomResp, NullResp} :
         hs' = [hs EXCEPT ![h] = Finish(@, resp)]
    /\ UNCHANGED << sigv, lisv, mainv, auxv >>

\* init.c:693-706: one pass of the loop up to waitpid(pid, &status, WNOHANG)
HWait(h) ==
    /\ Alive /\ hs[h].pc = "loop"
    /\ IF ch[h].st = "zombie"
       THEN /\ ch' = [ch EXCEPT ![h] = Reaped(@, "sup")]
            /\ \E r \in Collect(hs[h], ch[h].status) : hs' = [hs EXCEPT ![h] = r]
       ELSE /\ hs' = [hs EXCEPT ![h].pc = "chk"]
            /\ UNCHANGED ch
    /\ UNCHANGED << sigv, lisv, mainv, auxv >>

\* the timeout has passed and the loop waits without killing the child
HTimeoutNoKill(h) ==
    /\ Alive /\ hs[h].pc = "chk"
    /\ TimedOut(hs[h].elapsed, hs[h].tmo)
    /\ hs' = [hs EXCEPT ![h].pc = "kill_wait"]
    /\ UNCHANGED << ch, sigv, lisv, mainv, auxv >>

\* init.c:707-708: the timeout has passed, kill(pid, SIGKILL)
HTimeout(h) ==
    /\ Alive /\ hs[h].pc = "chk"
    /\ TimedOut(hs[h].elapsed, hs[h].tmo)
    /\ ch' = [ch EXCEPT ![h] = Signalled(@, SIGKILL)]
    /\ hs' = [hs EXCEPT ![h].pc = "kill_wait"]
    /\ UNCHANGED << sigv, lisv, mainv, auxv >>

\* init.c:711-713: not yet, usleep(10000)
HSleep(h) ==
    /\ Alive /\ hs[h].pc = "chk"
    /\ ~TimedOut(hs[h].elapsed, hs[h].tmo)
    /\ hs' = [hs EXCEPT ![h].pc = "loop"]
    /\ UNCHANGED << ch, sigv, lisv, mainv, auxv >>

\* init.c:709-710: waitpid(pid, &status, 0) returns, with the child, with
\* ECHILD, or with EINTR and the child still running when a signal is
\* handled in this thread (status is then left as it was); the result is
\* not looked at
HKillWait(h) ==
    /\ Alive /\ hs[h].pc = "kill_wait"
    /\ ch[h].st \in {"zombie", "reaped", "running"}
    /\ ch' = [ch EXCEPT ![h] = IF @.st = "zombie" THEN Reaped(@, "sup") ELSE @]
    /\ \E r \in Collect(hs[h], IF ch[h].st = "zombie" THEN ch[h].status
                                ELSE hs[h].status) :
         hs' = [hs EXCEPT ![h] = r]
    /\ UNCHANGED << sigv, lisv, mainv, auxv >>

\* init.c:817-818: the one write call returns; it waits for as long as the
\* peer does not take the bytes
HWrite(h) ==
    /\ Alive /\ hs[h].pc = "write"
    /\ hs' = [hs EXCEPT ![h].ev = Append(@, "write"), ![h].pc = "close"]
    /\ UNCHANGED << ch, sigv, lisv, mainv, auxv >>

\* init.c:821-822: the connection is closed and the thread ends
HClose(h) ==
    /\ Alive /\ hs[h].pc = "close"
    /\ hs' = [hs EXCEPT ![h].ev = Append(@, "close"), ![h].pc = "done"]
    /\ UNCHANGED << ch, sigv, lisv, mainv, auxv >>

\* the steps of handle_exec, none of which waits for the peer
Supervise(h) ==
    \/ HExecBadCmd(h) \/ HExecNoFork(h) \/ HExecFork(h)
    \/ HAllocOk(h) \/ HAllocFail(h) \/ HOomWait(h)
    \/ HWait(h) \/ HTimeout(h) \/ HSleep(h) \/ HKillWait(h)

Handler(h) ==
    \/ HStart(h) \/ Supervise(h) \/ HWrite(h) \/ HClose(h)

\* a second of the clock passes: time(NULL) - start grows for every
\* supervision loop in progress
Tick ==
    /\ Alive
    /\ \E h \in Conns : hs[h].pc \in {"loop", "chk"} /\ hs[h].elapsed < MaxElapsed
    /\ hs' = [h \in Conns |->
                IF hs[h].pc \in {"loop", "chk"} /\ hs[h].elapsed < MaxElapsed
                THEN [hs[h] EXCEPT !.elapsed = @ + 1] ELSE hs[h]]
    /\ UNCHANGED << ch, sigv, lisv, mainv, auxv >>

Next ==
    \/ handle_sigterm \/ handle_sigint
    \/ Listener
    \/ MainThread
    \/ (\E h \in Conns : Handler(h))
    \/ (\E h \in Conns : ChildExit(h))
    \/ (\E h \in Conns : ChildDie(h))
    \/ Tick

Spec == Init /\ [][Next]_vars

\* every thread that can run is scheduled, the clock goes on, and the kernel
\* delivers a pending fatal signal; nothing is assumed of the peer, for which
\* a handler waits in read (HStart) and in write (HWrite)
FairSpec ==
    /\ Spec
    /\ WF_vars(MainThread)
    /\ WF_vars(Tick)
    /\ \A h \in Conns : WF_vars(Supervise(h))
    /\ \A h \in Conns : WF_vars(HClose(h))
    /\ \A h \in Conns : WF_vars(ChildDie(h))

(***************************************************************************)
(* The supervision loop of handle_exec against the wall clock in           *)
(* milliseconds, init.c:686-714: time(NULL) is the wall clock in whole      *)
(* seconds.  tm.t0 is the instant start is taken, tm.wall the present.     *)
(***************************************************************************)
\* latest instant of the wall clock looked at
MaxWall == 3200
\* instants within a clock second at which the loop starts
StartInstants == {0, 500, 990, 999}
TimerTimeouts == {-5000, -1, 0, 100, 999, 1000, 1500, 2000}
\* the timeout field of a request: absent, or its number
TimerFields == { {} } \cup { {x} : x \in TimerTimeouts }

\* init.c:614
DEFAULT_TIMEOUT_MS == 30000

\* init.c:213-225, 614-615: timeout_ms after json_get_int(json, "timeout",
\* &timeout_ms), which leaves it alone when the request has no such field
json_get_int(field, value) ==
    IF field = {} THEN value ELSE CHOOSE x \in field : TRUE
\* how long one usleep(10000) may take, init.c:712
SleepSteps == {10, 500}

time(ms) == ms \div 1000

TimerInit ==
    /\ shutdown_requested = 0 /\ reboot_requested = 0 /\ obs = NoObs
    /\ vsock_fd = -1 /\ lsock = "none" /\ lpc = "done" /\ lcur = 0
    /\ mpc = "loop" /\ do_reboot = FALSE /\ steps = << >>
    /\ reboot_arg = "none" /\ final = "none"
    /\ hs = [h \in Conns |-> IdleHandler]
    /\ ch = [h \in Conns |-> NoChild]
    /\ rd = RdOff
    /\ fn = FnOff
    /\ \E t \in StartInstants : \E f \in TimerFields :
         tm = [pc |-> "loop", t0 |-> t, wall |-> t, field |-> f,
               tmo |-> json_get_int(f, DEFAULT_TIMEOUT_MS),
               polled |-> FALSE, killed_at |-> 0]

\* init.c:699-700, the child has exited: waitpid returns it
TChildExited ==
    /\ tm.pc = "loop"
    /\ tm' = [tm EXCEPT !.pc = "exited", !.polled = TRUE]
    /\ UNCHANGED << sigv, lisv, mainv, hv, rd, fn >>

\* init.c:699, 707-710, waitpid(pid, &status, WNOHANG) has returned 0: the
\* child still runs, and the test is true
TKill ==
    /\ tm.pc = "loop"
    /\ TimedOut(time(tm.wall) - time(tm.t0), tm.tmo)
    /\ tm' = [tm EXCEPT !.pc = "killed", !.polled = TRUE, !.killed_at = tm.wall]
    /\ UNCHANGED << sigv, lisv, mainv, hv, rd, fn >>

\* init.c:699, 711-713, the child still runs and the test is false
TSleep ==
    /\ tm.pc = "loop"
    /\ ~TimedOut(time(tm.wall) - time(tm.t0), tm.tmo)
    /\ \E d \in SleepSteps :
         /\ tm.wall + d <= MaxWall
         /\ tm' = [tm EXCEPT !.wall = @ + d, !.polled = TRUE]
    /\ UNCHANGED << sigv, lisv, mainv, hv, rd, fn >>

TimerNext == TChildExited \/ TKill \/ TSleep

TimerSpec == TimerInit /\ [][TimerNext]_vars

(***************************************************************************)
(* The read loop of handle_connection, init.c:746-767, on a request of     *)
(* rd.len bytes that starts with {"operation":"ping" and whose first       *)
(* newline is byte rd.nl (0: it has none).                                 *)
(***************************************************************************)
MAX_REQUEST_SIZE == 128 * 1024 * 1024
\* read calls looked at for one request
MaxReads == 4
RequestLens == {10, 16, 40, MAX_REQUEST_SIZE - 1, MAX_REQUEST_SIZE,
                MAX_REQUEST_SIZE + 1}
\* what a read call may return short of everything that fits
ShortReads == {1, 8, 18}

Min(a, b) == IF a < b THEN a ELSE b

\* json_get_string(request, "operation") and the dispatch on a prefix of
\* {"operation":"ping"...: the key with its opening quote ends at byte 14,
\* the value at byte 18 (init.c:169-211, 767-772, 810)
OperationOfPrefix(total) ==
    IF total < 14 THEN ErrResp("missing operation")
    ELSE IF total < 18 THEN ErrResp("unknown operation")
    ELSE Resp(TRUE, "pong", NoCode)

ReadInit ==
    /\ shutdown_requested = 0 /\ reboot_requested = 0 /\ obs = NoObs
    /\ vsock_fd = -1 /\ lsock = "none" /\ lpc = "done" /\ lcur = 0
    /\ mpc = "loop" /\ do_reboot = FALSE /\ steps = << >>
    /\ reboot_arg = "none" /\ final = "none"
    /\ hs = [h \in Conns |-> IdleHandler]
    /\ ch = [h \in Conns |-> NoChild]
    /\ tm = TmOff
    /\ fn = FnOff
    /\ \E n \in RequestLens : \E k \in {0, n} :
         rd = [pc |-> "read", len |-> n, nl |-> k, total |-> 0, reads |-> 0,
               eof |-> FALSE, resp |-> NullResp]

\* init.c:755: the loop goes on
RdMore == rd.total < MAX_REQUEST_SIZE - 1

\* init.c:756-761: read returns n > 0 bytes, at most
\* MAX_REQUEST_SIZE - total - 1 of those the peer has sent
RdRead ==
    /\ rd.pc = "read" /\ RdMore /\ rd.reads < MaxReads
    /\ rd.total < rd.len
    /\ LET most == Min(rd.len - rd.total, MAX_REQUEST_SIZE - rd.total - 1)
       IN  \E n \in {Min(k, most) : k \in ShortReads} \cup {most} :
             LET t == rd.total + n
             IN  rd' = [rd EXCEPT !.total = t, !.reads = @ + 1,
                          !.pc = IF rd.nl # 0 /\ rd.nl <= t THEN "parse" ELSE "read"]
    /\ UNCHANGED << sigv, lisv, mainv, hv, tm, fn >>

\* init.c:757: read returns 0, the peer has sent everything and closed
RdEof ==
    /\ rd.pc = "read" /\ RdMore
    /\ rd.total = rd.len
    /\ rd' = [rd EXCEPT !.pc = "parse", !.eof = TRUE]
    /\ UNCHANGED << sigv, lisv, mainv, hv, tm, fn >>

\* init.c:755: the buffer is full
RdFull ==
    /\ rd.pc = "read" /\ ~RdMore
    /\ rd' = [rd EXCEPT !.pc = "parse"]
    /\ UNCHANGED << sigv, lisv, mainv, hv, tm, fn >>

\* init.c:764-811: whatever was read is parsed and dispatched
RdDispatch ==
    /\ rd.pc = "parse"
    /\ rd' = [rd EXCEPT !.pc = "dispatched", !.resp = OperationOfPrefix(rd.total)]
    /\ UNCHANGED << sigv, lisv, mainv, hv, tm, fn >>

ReadNext == RdRead \/ RdEof \/ RdFull \/ RdDispatch

ReadSpec == ReadInit /\ [][ReadNext]_vars

(***************************************************************************)
(* The codec, init.c:94-166, and the two file handlers that use it,        *)
(* init.c:428-511.  Bytes and characters are their codes; data[k] of the   *)
(* code is element k + 1 of a sequence.                                    *)
(***************************************************************************)
\* longest byte sequence encoded
MaxBytes == 4
Bytes == {0, 77, 251, 255}
\* what the two bytes in front of the encoded text, data[-1] and data[-2],
\* may hold: the text is a block of malloc (json_get_string, init.c:203) and
\* the bytes in front of it are the allocator's header, which holds no two
\* '=' in a row
BeforeBytes == { << 0, 0 >>, << 0, 61 >> }

\* the padding character '='
PAD == 61

\* init.c:95
base64_table ==
    [i \in 0..63 |->
        IF i < 26 THEN 65 + i
        ELSE IF i < 52 THEN 97 + (i - 26)
        ELSE IF i < 62 THEN 48 + (i - 52)
        ELSE IF i = 62 THEN 43 ELSE 47]

\* init.c:96-113
base64_decode_table ==
    [c \in 0..255 |->
        IF c >= 65 /\ c <= 90 THEN c - 65
        ELSE IF c >= 97 /\ c <= 122 THEN c - 71
        ELSE IF c >= 48 /\ c <= 57 THEN c + 4
        ELSE IF c = 43 THEN 62
        ELSE IF c = 47 THEN 63 ELSE -1]

BASE64_DECODE_SIZE(n) == ((n + 3) \div 4) * 3

\* init.c:122-129, the four characters for the bytes from offset i
EncodeGroup(data, i) ==
    LET len == Len(data)
        n == data[i + 1] * 65536
             + (IF i + 1 < len THEN data[i + 2] * 256 ELSE 0)
             + (IF i + 2 < len THEN data[i + 3] ELSE 0)
    IN  << base64_table[(n \div 262144) % 64],
           base64_table[(n \div 4096) % 64],
           IF i + 1 < len THEN base64_table[(n \div 64) % 64] ELSE PAD,
           IF i + 2 < len THEN base64_table[n % 64] ELSE PAD >>

RECURSIVE EncodeFrom(_, _)
EncodeFrom(data, i) ==
    IF i >= Len(data) THEN << >>
    ELSE EncodeGroup(data, i) \o EncodeFrom(data, i + 3)

\* init.c:115-134
base64_encode(data) == EncodeFrom(data, 0)

\* data[k] as base64_decode reads it: an index below 0 is a byte in front of
\* the text, before[-k]
ByteAt(data, before, k) == IF k >= 0 THEN data[k + 1] ELSE before[-k]

\* the indexes outside the text that init.c:140-141 read
OutsideReads(data) ==
    {k \in {Len(data) - 1, Len(data) - 2} : k < 0 \/ k >= Len(data)}

\* init.c:148-160, the bytes for the four characters from offset i
DecodeGroup(data, i) ==
    LET a == base64_decode_table[data[i + 1]]
        b == base64_decode_table[data[i + 2]]
        c == base64_decode_table[data[i + 3]]
        d == base64_decode_table[data[i + 4]]
        n == a * 262144 + b * 4096 + (IF c >= 0 THEN c ELSE 0) * 64
             + (IF d >= 0 THEN d ELSE 0)
    IN  IF a < 0 \/ b < 0 THEN [ok |-> FALSE, out |-> << >>]
        ELSE IF data[i + 3] # PAD /\ c < 0 THEN [ok |-> FALSE, out |-> << >>]
        ELSE IF data[i + 4] # PAD /\ d < 0 THEN [ok |-> FALSE, out |-> << >>]
        ELSE [ok |-> TRUE,
              out |-> << (n \div 65536) % 256 >>
                      \o (IF data[i + 3] # PAD THEN << (n \div 256) % 256 >> ELSE << >>)
                      \o (IF data[i + 4] # PAD THEN << n % 256 >> ELSE << >>)]

RECURSIVE DecodeFrom(_, _)
DecodeFrom(data, i) ==
    IF i >= Len(data) THEN [ok |-> TRUE, out |-> << >>]
    ELSE LET g == DecodeGroup(data, i)
             r == DecodeFrom(data, i + 4)
         IN  IF g.ok /\ r.ok THEN [ok |-> TRUE, out |-> g.out \o r.out]
             ELSE [ok |-> FALSE, out |-> << >>]

\* init.c:136-166.  olen is a size_t: below 0 here stands for its wrapping
\* around, and malloc(olen + 1) of such a size returns NULL; malloc(0) returns
\* a block.
base64_decode(data, before) ==
    LET len == Len(data)
        olen == BASE64_DECODE_SIZE(len)
                - (IF ByteAt(data, before, len - 1) = PAD THEN 1 ELSE 0)
                - (IF ByteAt(data, before, len - 2) = PAD THEN 1 ELSE 0)
    IN  IF len % 4 # 0 THEN [ok |-> FALSE, out |-> << >>, outside |-> {}]
        ELSE IF olen + 1 < 0
             THEN [ok |-> FALSE, out |-> << >>, outside |-> OutsideReads(data)]
        ELSE [ok |-> DecodeFrom(data, 0).ok, out |-> DecodeFrom(data, 0).out,
              outside |-> OutsideReads(data)]

\* the file at the path: absent, or its bytes
NoFile == {}

\* the content is written as it came, without decoding it
handle_file_write_raw(fs, content, before) ==
    { [resp |-> ErrResp("open"), fs |-> fs, os |-> "error"] }
    \cup
    { [resp |-> [ok |-> TRUE, tag |-> "bytes_written", n |-> k],
       fs |-> {SubSeq(content, 1, k)},
       os |-> IF k = Len(content) THEN "ok" ELSE "short"] :
        k \in {Len(content)} \cup {j \in {Len(content) - 1} : j >= 0} }
    \cup
    { [resp |-> ErrResp("write"), fs |-> {<< >>}, os |-> "error"] }

\* init.c:480-511, handle_file_write(path, content) on the file system fs:
\* the outcomes, each the response and the file afterwards
handle_file_write(fs, content, before) ==
    LET d == base64_decode(content, before)
    IN  IF ~d.ok THEN { [resp |-> ErrResp("base64 decode failed"), fs |-> fs,
                         os |-> "ok"] }
        ELSE { [resp |-> ErrResp("open"), fs |-> fs, os |-> "error"] }
             \cup
             { [resp |-> [ok |-> TRUE, tag |-> "bytes_written", n |-> k],
                fs |-> {SubSeq(d.out, 1, k)},
                os |-> IF k = Len(d.out) THEN "ok" ELSE "short"] :
                 k \in {Len(d.out)} \cup {j \in {Len(d.out) - 1} : j >= 0} }
             \cup
             { [resp |-> ErrResp("write"), fs |-> {<< >>}, os |-> "error"] }

\* init.c:428-478, handle_file_read(path)
handle_file_read(fs) ==
    IF fs = NoFile THEN { [resp |-> ErrResp("open"), os |-> "error"] }
    ELSE LET buf == CHOOSE f \in fs : TRUE
         IN  { [resp |-> ErrResp("read"), os |-> "error"],
               [resp |-> [ok |-> TRUE, tag |-> "content",
                          content |-> base64_encode(buf), size |-> Len(buf)],
                os |-> "ok"] }

\* init.c:536-552, handle_file_delete(path) on a path that names no
\* directory: unlink removes the file, or fails
handle_file_delete(fs) ==
    { [resp |-> ErrResp("unlink"), fs |-> fs] }
    \cup (IF fs = NoFile THEN {}
          ELSE { [resp |-> Resp(TRUE, "deleted", NoCode), fs |-> NoFile] })

RECURSIVE SeqsUpTo(_, _)
SeqsUpTo(S, n) ==
    IF n = 0 THEN { << >> }
    ELSE LET shorter == SeqsUpTo(S, n - 1)
         IN  shorter \cup { Append(q, x) : q \in {r \in shorter : Len(r) = n - 1},
                                            x \in S }

\* everything but fn as it is in TimerInit and ReadInit
RestIdle ==
    /\ shutdown_requested = 0 /\ reboot_requested = 0 /\ obs = NoObs
    /\ vsock_fd = -1 /\ lsock = "none" /\ lpc = "done" /\ lcur = 0
    /\ mpc = "loop" /\ do_reboot = FALSE /\ steps = << >>
    /\ reboot_arg = "none" /\ final = "none"
    /\ hs = [h \in Conns |-> IdleHandler]
    /\ ch = [h \in Conns |-> NoChild]
    /\ tm = TmOff
    /\ rd = RdOff

CodecInit ==
    /\ RestIdle
    /\ \E b \in SeqsUpTo(Bytes, MaxBytes) : \E before \in BeforeBytes :
         fn = [unit |-> "codec", pc |-> "start", b |-> b, before |-> before,
               enc |-> << >>, dec |-> [ok |-> FALSE, out |-> << >>, outside |-> {}],
               fs |-> NoFile, os |-> "ok", wresp |-> NullResp, rresp |-> NullResp,
               dresp |-> NullResp]

\* the client encodes b
CdEncode ==
    /\ fn.unit = "codec" /\ fn.pc = "start"
    /\ fn' = [fn EXCEPT !.enc = base64_encode(fn.b), !.pc = "encoded"]
    /\ UNCHANGED << sigv, lisv, mainv, hv, tm, rd >>

\* base64_decode on the encoded text
CdDecode ==
    /\ fn.unit = "codec" /\ fn.pc = "encoded"
    /\ fn' = [fn EXCEPT !.dec = base64_decode(fn.enc, fn.before), !.pc = "decoded"]
    /\ UNCHANGED << sigv, lisv, mainv, hv, tm, rd >>

\* file_write(p, encode(b))
CdFileWrite ==
    /\ fn.unit = "codec" /\ fn.pc = "encoded"
    /\ \E o \in handle_file_write(fn.fs, fn.enc, fn.before) :
         fn' = [fn EXCEPT !.wresp = o.resp, !.fs = o.fs, !.os = o.os,
                          !.pc = "written"]
    /\ UNCHANGED << sigv, lisv, mainv, hv, tm, rd >>

\* file_read(p) after it
CdFileRead ==
    /\ fn.unit = "codec" /\ fn.pc = "written"
    /\ \E o \in handle_file_read(fn.fs) :
         fn' = [fn EXCEPT !.rresp = o.resp,
                          !.os = IF fn.os = "ok" THEN o.os ELSE fn.os,
                          !.pc = "read"]
    /\ UNCHANGED << sigv, lisv, mainv, hv, tm, rd >>

\* file_delete(p) after that
CdFileDelete ==
    /\ fn.unit = "codec" /\ fn.pc = "read"
    /\ \E o \in handle_file_delete(fn.fs) :
         fn' = [fn EXCEPT !.dresp = o.resp, !.fs = o.fs, !.pc = "deleted"]
    /\ UNCHANGED << sigv, lisv, mainv, hv, tm, rd >>

CodecNext == CdEncode \/ CdDecode \/ CdFileWrite \/ CdFileRead \/ CdFileDelete

CodecSpec == CodecInit /\ [][CodecNext]_vars

(***************************************************************************)
(* The dispatch of handle_connection on the fields of a request,            *)
(* init.c:767-811, with the first tests of handle_exec, init.c:560-612.     *)
(***************************************************************************)
AllOps == {"none", "ping", "file_read", "file_write", "file_stat",
           "file_delete", "exec", "frobnicate"}

\* the response, and the handler called with the system calls it starts
\* with; "handled" stands for the response of a handler that was given its
\* fields; decodes: the content of a file_write is a base64 text
DispatchFields(op, has_path, has_content, decodes, cmd) ==
    LET err(msg) == [resp |-> ErrResp(msg), calls |-> {}]
        run(f, sys) == [resp |-> Resp(TRUE, "handled", NoCode), calls |-> {f, sys}]
    IN  CASE op = "none" -> err("missing operation")
          [] op = "ping" -> [resp |-> Resp(TRUE, "pong", NoCode), calls |-> {}]
          [] op = "file_read" ->
               IF has_path THEN run("handle_file_read", "open")
               ELSE err("missing path")
          [] op = "file_write" ->
               IF has_path /\ has_content
               THEN IF decodes THEN run("handle_file_write", "open")
                    ELSE [resp |-> ErrResp("base64 decode failed"),
                          calls |-> {"handle_file_write"}]
               ELSE err("missing path or content")
          [] op = "file_stat" ->
               IF has_path THEN run("handle_file_stat", "stat")
               ELSE err("missing path")
          [] op = "file_delete" ->
               IF has_path THEN run("handle_file_delete", "unlink")
               ELSE err("missing path")
          [] op = "exec" ->
               CASE cmd = "missing" ->
                      [resp |-> ErrResp("missing cmd"), calls |-> {"handle_exec"}]
                 [] cmd = "not_array" ->
                      [resp |-> ErrResp("cmd must be an array"),
                       calls |-> {"handle_exec"}]
                 [] cmd = "empty" ->
                      [resp |-> ErrResp("empty command"), calls |-> {"handle_exec"}]
                 [] OTHER -> run("handle_exec", "pipe")
          [] OTHER -> err("unknown operation")

\* the system calls that act on a file or a process
FileOrProcessCalls == {"open", "stat", "unlink", "pipe"}

DispatchInit ==
    /\ RestIdle
    /\ \E op \in AllOps : \E hp, hc, dec \in BOOLEAN : \E cmd \in Cmds :
         fn = [unit |-> "dispatch", pc |-> "parsed", op |-> op,
               has_path |-> hp, has_content |-> hc, decodes |-> dec, cmd |-> cmd,
               resp |-> NullResp, calls |-> {}]

\* init.c:769-811
DqDispatch ==
    /\ fn.unit = "dispatch" /\ fn.pc = "parsed"
    /\ LET d == DispatchFields(fn.op, fn.has_path, fn.has_content, fn.decodes,
                               fn.cmd)
       IN  fn' = [fn EXCEPT !.resp = d.resp, !.calls = d.calls, !.pc = "answered"]
    /\ UNCHANGED << sigv, lisv, mainv, hv, tm, rd >>

\* init.c:816-822
DqClose ==
    /\ fn.unit = "dispatch" /\ fn.pc = "answered"
    /\ fn' = [fn EXCEPT !.pc = "closed"]
    /\ UNCHANGED << sigv, lisv, mainv, hv, tm, rd >>

DispatchNext == DqDispatch \/ DqClose

DispatchSpec == DispatchInit /\ [][DispatchNext]_vars

(***************************************************************************)
(* The write of the response, init.c:816-822: one write call, then close.  *)
(***************************************************************************)
\* lengths of the responses written, the newline included
ResponseLens == {38, 41, 46}

WriteInit ==
    /\ RestIdle
    /\ \E n \in ResponseLens :
         fn = [unit |-> "write", pc |-> "write", len |-> n, sent |-> 0,
               calls |-> 0, failed |-> FALSE]

\* init.c:817: write(client_fd, response, strlen(response)) returns the
\* number of bytes it took, which may be fewer than asked, or -1
WrWrite ==
    /\ fn.unit = "write" /\ fn.pc = "write"
    /\ \/ \E n \in 1..fn.len :
            fn' = [fn EXCEPT !.sent = @ + n, !.calls = @ + 1, !.pc = "close"]
       \/ fn' = [fn EXCEPT !.failed = TRUE, !.calls = @ + 1, !.pc = "close"]
    /\ UNCHANGED << sigv, lisv, mainv, hv, tm, rd >>

\* init.c:821
WrClose ==
    /\ fn.unit = "write" /\ fn.pc = "close"
    /\ fn' = [fn EXCEPT !.pc = "closed"]
    /\ UNCHANGED << sigv, lisv, mainv, hv, tm, rd >>

WriteNext == WrWrite \/ WrClose

WriteSpec == WriteInit /\ [][WriteNext]_vars

(***************************************************************************)
(* The text of a response, init.c:228-251, 513-534, 724-739.  A text is a  *)
(* sequence of characters, each a string of length one; a longer string    *)
(* stands for a piece of the format that holds no newline.                 *)
(***************************************************************************)
\* longest value looked at
MaxText == 3
\* characters of a request after the opening quote of the path value
WireChars == {"a", "n", "\\", "\""}
\* bytes an exec child writes
OutChars == {"a", "\n", "\"", "\f"}

\* init.c:182-186: the offset at which the scan for the closing quote stops
RECURSIVE ValueEnd(_, _)
ValueEnd(text, e) ==
    IF e >= Len(text) \/ text[e + 1] = "\"" THEN e
    ELSE IF text[e + 1] = "\\" /\ e + 1 < Len(text) THEN ValueEnd(text, e + 2)
    ELSE ValueEnd(text, e + 1)

\* init.c:197-204
Unescaped(c) ==
    CASE c = "n" -> "\n"
      [] c = "r" -> "\r"
      [] c = "t" -> "\t"
      [] OTHER   -> c

\* init.c:194-208
RECURSIVE UnescapeFrom(_, _, _)
UnescapeFrom(text, i, len) ==
    IF i >= len THEN << >>
    ELSE IF text[i + 1] = "\\" /\ i + 1 < len
         THEN << Unescaped(text[i + 2]) >> \o UnescapeFrom(text, i + 2, len)
    ELSE << text[i + 1] >> \o UnescapeFrom(text, i + 1, len)

\* init.c:180-210, json_get_string from the character after the opening quote
json_get_string(text) == UnescapeFrom(text, 0, ValueEnd(text, 0))

\* init.c:235-247
EscapeChar(c) ==
    CASE c = "\"" -> << "\\", "\"" >>
      [] c = "\\" -> << "\\", "\\" >>
      [] c = "\n" -> << "\\", "n" >>
      [] c = "\r" -> << "\\", "r" >>
      [] c = "\t" -> << "\\", "t" >>
      [] c = "\f" -> << "\\", "u", "0", "0", "0", "c" >>
      [] OTHER    -> << c >>

RECURSIVE EscapeFrom(_, _)
EscapeFrom(str, i) ==
    IF i > Len(str) THEN << >> ELSE EscapeChar(str[i]) \o EscapeFrom(str, i + 1)

\* init.c:228-251, the text json_escape builds
json_escape(str) == EscapeFrom(str, 1)

\* init.c:230: out has room for len * 2 + 1 bytes, the final NUL included
EscapeOverflows(str) == Len(json_escape(str)) + 1 > Len(str) * 2 + 1

\* init.c:513-534, handle_file_stat(path): stat fails, or the response
\* echoes the path
handle_file_stat(path) ==
    { [resp |-> << "{\"success\":false,\"error\":\"stat: ",
                   "No such file or directory", "\"}", "\n" >>,
       raw |-> << >>, embedded |-> << >>, overflow |-> FALSE],
      [resp |-> << "{\"success\":true,\"data\":{\"path\":\"" >> \o path
                \o << "\",\"size\":0,\"mode\":\"644\",\"mod_time\":\"",
                      "1970-01-01T00:00:00Z", "\",\"is_dir\":false}}", "\n" >>,
       raw |-> path, embedded |-> path, overflow |-> FALSE] }

\* init.c:724-739, the response of handle_exec for the output out;
\* overflow: json_escape wrote past the end of its buffer on the way
ExecResponse(out) ==
    { [resp |-> << "{\"success\":true,\"data\":{\"exit_code\":0,\"stdout\":\"" >>
                \o json_escape(out)
                \o << "\",\"stderr\":\"", "\"}}", "\n" >>,
       raw |-> out, embedded |-> json_escape(out),
       overflow |-> EscapeOverflows(out)] }

EnvelopeInit ==
    /\ RestIdle
    /\ \/ \E text \in SeqsUpTo(WireChars, MaxText) :
            fn = [unit |-> "envelope", pc |-> "request", op |-> "file_stat",
                  input |-> text, path |-> << >>, resp |-> << >>,
                  raw |-> << >>, embedded |-> << >>, overflow |-> FALSE]
       \/ \E out \in SeqsUpTo(OutChars, MaxText) :
            fn = [unit |-> "envelope", pc |-> "collected", op |-> "exec",
                  input |-> out, path |-> << >>, resp |-> << >>,
                  raw |-> << >>, embedded |-> << >>, overflow |-> FALSE]

\* init.c:792: the path of a file_stat request
EnParse ==
    /\ fn.unit = "envelope" /\ fn.pc = "request"
    /\ fn' = [fn EXCEPT !.path = json_get_string(fn.input), !.pc = "parsed"]
    /\ UNCHANGED << sigv, lisv, mainv, hv, tm, rd >>

\* init.c:794
EnStat ==
    /\ fn.unit = "envelope" /\ fn.pc = "parsed"
    /\ \E o \in handle_file_stat(fn.path) :
         fn' = [fn EXCEPT !.resp = o.resp, !.raw = o.raw,
                          !.embedded = o.embedded,
                          !.overflow = o.overflow, !.pc = "formatted"]
    /\ UNCHANGED << sigv, lisv, mainv, hv, tm, rd >>

\* init.c:724-739
EnExec ==
    /\ fn.unit = "envelope" /\ fn.pc = "collected"
    /\ \E o \in ExecResponse(fn.input) :
         fn' = [fn EXCEPT !.resp = o.resp, !.raw = o.raw,
                          !.embedded = o.embedded,
                          !.overflow = o.overflow, !.pc = "formatted"]
    /\ UNCHANGED << sigv, lisv, mainv, hv, tm, rd >>

EnvelopeNext == EnParse \/ EnStat \/ EnExec

EnvelopeSpec == EnvelopeInit /\ [][EnvelopeNext]_vars

(***************************************************************************)
(* The supervision loop of handle_exec and the output of the child,        *)
(* init.c:672-722, for one of the two streams: the child writes into the   *)
(* pipe, the loop reads from the pipe into its buffer.                     *)
(***************************************************************************)
MAX_RESPONSE_SIZE == 128 * 1024 * 1024
\* a pipe is a row of at most PipePages buffers of PipePage bytes each
PipePage == 4096
PipePages == 16
\* bytes one write of the child hands over at most
ChildWrites == {4096, 65536}
\* bytes the loop has collected when it is first looked at
Collected == {0, MAX_RESPONSE_SIZE - 1 - 65536, MAX_RESPONSE_SIZE - 65536}
\* bytes the child has yet to write at that moment
Wants == {0, 1, 65536, 65537, 131071, 131072, 131073}

\* the bytes in the buffers of a pipe
RECURSIVE PipeBytes(_)
PipeBytes(bufs) ==
    IF bufs = << >> THEN 0 ELSE Head(bufs).len + PipeBytes(Tail(bufs))

\* a read of n bytes empties the buffers from the front; a buffer is given
\* back when its last byte is taken, and keeps its place until then
RECURSIVE PipeRead(_, _)
PipeRead(bufs, n) ==
    IF n = 0 \/ bufs = << >> THEN bufs
    ELSE LET h == Head(bufs)
         IN  IF h.len <= n THEN PipeRead(Tail(bufs), n - h.len)
             ELSE << [off |-> h.off + n, len |-> h.len - n] >> \o Tail(bufs)

\* a write puts every PipePage bytes into a buffer of their own for as long
\* as one is free; left is what it still has to put when none is
RECURSIVE PipeFill(_, _)
PipeFill(bufs, r) ==
    IF r = 0 \/ Len(bufs) = PipePages THEN [bufs |-> bufs, left |-> r]
    ELSE PipeFill(Append(bufs, [off |-> 0, len |-> Min(PipePage, r)]),
                  r - Min(PipePage, r))

\* write(fd, buf, n) on a pipe: what goes beyond whole pages is put behind
\* the bytes of the last buffer when it fits there, the rest fills free
\* buffers
PipeWrite(bufs, n) ==
    LET chars == n % PipePage
        last == bufs[Len(bufs)]
        merge == chars # 0 /\ bufs # << >>
                 /\ last.off + last.len + chars <= PipePage
    IN  IF merge
        THEN PipeFill([bufs EXCEPT ![Len(bufs)].len = @ + chars], n - chars)
        ELSE PipeFill(bufs, n)

\* init.c:693: what read(fd, buf + len, MAX_RESPONSE_SIZE - len - 1) takes
\* out of a pipe that holds pipe bytes
ReadTakes(pipe, len) == Min(pipe, MAX_RESPONSE_SIZE - len - 1)

\* what a write of the child of at most k bytes puts into the pipe
WriteTakes(k) ==
    LET n == Min(k, fn.want) IN n - PipeWrite(fn.bufs, n).left

\* the child waits in write: the pipe takes no byte of what it has to write
ChildBlocked ==
    /\ fn.child = "running" /\ fn.want > 0
    /\ \A k \in ChildWrites : WriteTakes(k) = 0
\* and the loop takes nothing out of the pipe any more
Stuck == ChildBlocked /\ ReadTakes(fn.pipe, fn.len) = 0

DrainInit ==
    /\ RestIdle
    /\ \E len \in Collected : \E w \in Wants : \E c \in ExitCodes :
         fn = [unit |-> "drain", pc |-> "read", len |-> len, pipe |-> 0,
               bufs |-> << >>, want |-> w, code |-> c, child |-> "running",
               status |-> 0, exit_code |-> NoCode]

\* the child writes: the pipe takes what it has buffers for; a write that
\* has waited goes on with what is left of it
DrChildWrite ==
    /\ fn.unit = "drain" /\ fn.child = "running"
    /\ fn.want > 0
    /\ \E k \in ChildWrites :
         LET w == PipeWrite(fn.bufs, Min(k, fn.want))
         IN  /\ WriteTakes(k) > 0
             /\ fn' = [fn EXCEPT !.bufs = w.bufs, !.pipe = PipeBytes(w.bufs),
                                 !.want = @ - WriteTakes(k)]
    /\ UNCHANGED << sigv, lisv, mainv, hv, tm, rd >>

\* the child has written everything and exits
DrChildExit ==
    /\ fn.unit = "drain" /\ fn.child = "running" /\ fn.want = 0
    /\ fn' = [fn EXCEPT !.child = "zombie", !.status = ExitStatus(fn.code)]
    /\ UNCHANGED << sigv, lisv, mainv, hv, tm, rd >>

\* init.c:693-694
DrRead ==
    /\ fn.unit = "drain" /\ fn.pc = "read"
    /\ LET n == ReadTakes(fn.pipe, fn.len)
       IN  fn' = [fn EXCEPT !.len = @ + n, !.pipe = @ - n,
                            !.bufs = PipeRead(@, n), !.pc = "wait"]
    /\ UNCHANGED << sigv, lisv, mainv, hv, tm, rd >>

\* init.c:699-706 and 716-722: waitpid(pid, &status, WNOHANG); when it
\* returns the child, read what is left while read returns more than 0
DrWait ==
    /\ fn.unit = "drain" /\ fn.pc = "wait"
    /\ IF fn.child = "zombie"
       THEN LET n == ReadTakes(fn.pipe, fn.len)
            IN  fn' = [fn EXCEPT !.len = @ + n, !.pipe = 0, !.bufs = << >>,
                                 !.child = "reaped",
                                 !.exit_code = {ExitCode(fn.status)},
                                 !.pc = "done"]
       ELSE fn' = [fn EXCEPT !.pc = "chk"]
    /\ UNCHANGED << sigv, lisv, mainv, hv, tm, rd >>

\* init.c:711-713
DrSleep ==
    /\ fn.unit = "drain" /\ fn.pc = "chk"
    /\ fn' = [fn EXCEPT !.pc = "read"]
    /\ UNCHANGED << sigv, lisv, mainv, hv, tm, rd >>

\* init.c:707-710 and 716-722.  The child is one that ends within the timeout
\* when its writes are not held up: the timeout passes only while the child
\* waits on a pipe the loop does not empty.
DrKill ==
    /\ fn.unit = "drain" /\ fn.pc = "chk"
    /\ Stuck
    /\ fn' = [fn EXCEPT !.child = "reaped", !.status = SigStatus(SIGKILL),
                        !.exit_code = {ExitCode(SigStatus(SIGKILL))},
                        !.pipe = 0, !.bufs = << >>, !.pc = "done"]
    /\ UNCHANGED << sigv, lisv, mainv, hv, tm, rd >>

DrainNext ==
    \/ DrChildWrite \/ DrChildExit \/ DrRead \/ DrWait \/ DrSleep \/ DrKill

DrainSpec == DrainInit /\ [][DrainNext]_vars

(***************************************************************************)
(* Connection descriptors, init.c:743-823 and 859-877: the listener        *)
(* accepts connections and starts one handler thread for each; the         *)
(* handlers run concurrently.  A descriptor is a number; the kernel gives  *)
(* the lowest free number to a new connection, so the number of a closed   *)
(* connection names a later one.                                           *)
(***************************************************************************)
\* connections accepted in a run
MaxAccepted == 3
\* exec requests among them
MaxExecs == 1
Accepted == 1..MaxAccepted
\* the listener, as the task of a call; a handler is named by its connection
LISTENER == 0
\* the descriptor numbers above the listener's: room for every connection,
\* for the four pipe ends of every exec, for the file a handler has open,
\* and for the number accept holds
Fds == (LISTEN_FD + 1)..
           (LISTEN_FD + 2 * MaxAccepted + MaxExecs * Cardinality(PipeEnds) + 1)

NoPipes == [e \in PipeEnds |-> 0]
NoThread == [pc |-> "none", client_fd |-> 0, response |-> 0, pipes |-> NoPipes,
             file |-> 0]
\* the order in which a failed fork's pipe ends are closed, init.c:626-627
ForkFailCloses == << "out_r", "out_w", "err_r", "err_w" >>
NoUse == [by |-> {}, writes |-> 0, closes |-> 0, bytes_of |-> {}]

\* the kernel's choice of a number for a new descriptor: the lowest that
\* names no connection and is not in use otherwise
LowestFree(open, other) ==
    CHOOSE n \in Fds :
        /\ open[n] = 0 /\ n \notin other
        /\ \A m \in Fds : m < n => open[m] # 0 \/ m \in other

\* a read, write or close that task issues on the number fd: it reaches the
\* connection the number names at that moment, and goes astray when the
\* number names none (EBADF, or a pipe end); close frees the number; a write
\* puts bytes of the response of the connection `of` on the connection
SysCall(f, task, fd, call, of) ==
    LET c == f.open[fd] IN
    IF c = 0 THEN [f EXCEPT !.stray = @ \cup {<< task, call >>}]
    ELSE [f EXCEPT
            !.use[c].by = @ \cup {<< task, call >>},
            !.use[c].writes = IF call = "write" THEN @ + 1 ELSE @,
            !.use[c].bytes_of = IF call = "write" THEN @ \cup {of} ELSE @,
            !.use[c].closes = IF call = "close" THEN @ + 1 ELSE @,
            !.open[fd] = IF call = "close" THEN 0 ELSE @]

ConnInit ==
    /\ RestIdle
    /\ fn = [unit |-> "conn", lpc |-> "accept", client_fd |-> 0, accepted |-> 0,
             reserved |-> 0, other |-> {}, execs |-> 0,
             open |-> [n \in Fds |-> 0],
             th |-> [k \in Accepted |-> NoThread],
             use |-> [k \in Accepted |-> NoUse],
             stray |-> {}]

\* init.c:863, the call: the kernel sets the number of the next connection
\* aside before it waits for one
CnAcceptCall ==
    /\ fn.unit = "conn" /\ fn.lpc = "accept"
    /\ LET n == LowestFree(fn.open, fn.other)
       IN  fn' = [fn EXCEPT !.reserved = n, !.other = @ \cup {n},
                            !.lpc = "in_accept"]
    /\ UNCHANGED << sigv, lisv, mainv, hv, tm, rd >>

\* init.c:863: accept returns a new connection on the number set aside
CnAccept ==
    /\ fn.unit = "conn" /\ fn.lpc = "in_accept"
    /\ fn.accepted < MaxAccepted
    /\ LET k == fn.accepted + 1
           n == fn.reserved
       IN  fn' = [fn EXCEPT !.accepted = k, !.open[n] = k, !.client_fd = n,
                            !.reserved = 0, !.other = @ \ {n},
                            !.lpc = "spawn"]
    /\ UNCHANGED << sigv, lisv, mainv, hv, tm, rd >>

\* init.c:863-868: accept returns -1 (EINTR or another error); the kernel
\* gives the number it had set aside back, and the loop goes on
CnAcceptErr ==
    /\ fn.unit = "conn" /\ fn.lpc = "in_accept"
    /\ fn' = [fn EXCEPT !.other = @ \ {fn.reserved}, !.reserved = 0,
                        !.lpc = "accept"]
    /\ UNCHANGED << sigv, lisv, mainv, hv, tm, rd >>

\* init.c:870-876: pthread_create hands the value of client_fd to the new
\* thread (init.c:744); when it fails the listener closes the descriptor
CnSpawn ==
    /\ fn.unit = "conn" /\ fn.lpc = "spawn"
    /\ LET k == fn.accepted
           closed == SysCall(fn, LISTENER, fn.client_fd, "close", k)
       IN  \/ fn' = [fn EXCEPT !.th[k].pc = "read",
                               !.th[k].client_fd = fn.client_fd,
                               !.lpc = "accept"]
           \/ fn' = [closed EXCEPT !.th[k].pc = "dropped", !.lpc = "accept"]
    /\ UNCHANGED << sigv, lisv, mainv, hv, tm, rd >>

\* init.c:746-750: the request buffer is not allocated; the thread goes to
\* close the connection without a read
CnAllocFail(k) ==
    /\ fn.unit = "conn" /\ fn.th[k].pc = "read"
    /\ << k, "read" >> \notin fn.use[k].by
    /\ fn' = [fn EXCEPT !.th[k].pc = "close"]
    /\ UNCHANGED << sigv, lisv, mainv, hv, tm, rd >>

\* init.c:746, 755-762: one read call; the loop goes on or ends
CnRead(k) ==
    /\ fn.unit = "conn" /\ fn.th[k].pc = "read"
    /\ \E more \in BOOLEAN :
         fn' = [SysCall(fn, k, fn.th[k].client_fd, "read", k)
                   EXCEPT !.th[k].pc = IF more THEN "read" ELSE "respond"]
    /\ UNCHANGED << sigv, lisv, mainv, hv, tm, rd >>

\* init.c:429, 491: handle_file_read or handle_file_write opens the file,
\* which takes the lowest free number
CnFileOpen(k) ==
    /\ fn.unit = "conn" /\ fn.th[k].pc = "respond"
    /\ LET n == LowestFree(fn.open, fn.other)
       IN  fn' = [fn EXCEPT !.other = @ \cup {n}, !.th[k].file = n,
                            !.th[k].pc = "file_close"]
    /\ UNCHANGED << sigv, lisv, mainv, hv, tm, rd >>

\* init.c:437-477, 498-510: the handler closes its file (after fstat and
\* read, or after write) and builds the response, or NULL
CnFileClose(k) ==
    /\ fn.unit = "conn" /\ fn.th[k].pc = "file_close"
    /\ LET closed == [fn EXCEPT !.other = @ \ {fn.th[k].file},
                                !.th[k].file = 0]
       IN  \/ fn' = [closed EXCEPT !.th[k].response = k, !.th[k].pc = "write"]
           \/ fn' = [closed EXCEPT !.th[k].pc = "close"]
    /\ UNCHANGED << sigv, lisv, mainv, hv, tm, rd >>

\* init.c:766-814 for a request that ends without a descriptor of its own
\* opened (ping, file_stat, file_delete, an error before or at open, a first
\* pipe that fails): the response to this thread's request, or NULL
CnRespond(k) ==
    /\ fn.unit = "conn" /\ fn.th[k].pc = "respond"
    /\ \/ fn' = [fn EXCEPT !.th[k].response = k, !.th[k].pc = "write"]
       \/ fn' = [fn EXCEPT !.th[k].pc = "close"]
    /\ UNCHANGED << sigv, lisv, mainv, hv, tm, rd >>

\* init.c:617-618: handle_exec, pipe(stdout_pipe) takes the two lowest free
\* numbers
CnPipeOut(k) ==
    /\ fn.unit = "conn" /\ fn.th[k].pc = "respond"
    /\ fn.execs < MaxExecs
    /\ LET r == LowestFree(fn.open, fn.other)
           w == LowestFree(fn.open, fn.other \cup {r})
       IN  fn' = [fn EXCEPT !.other = @ \cup {r, w}, !.execs = @ + 1,
                            !.th[k].pipes.out_r = r, !.th[k].pipes.out_w = w,
                            !.th[k].pc = "pipe_err"]
    /\ UNCHANGED << sigv, lisv, mainv, hv, tm, rd >>

\* init.c:618-621: pipe(stderr_pipe) takes the next two numbers; or it
\* fails and handle_exec returns "pipe failed" (or NULL) with both ends of
\* stdout_pipe left open, their numbers taken for good
CnPipeErr(k) ==
    /\ fn.unit = "conn" /\ fn.th[k].pc = "pipe_err"
    /\ \/ LET r == LowestFree(fn.open, fn.other)
              w == LowestFree(fn.open, fn.other \cup {r})
          IN  fn' = [fn EXCEPT !.other = @ \cup {r, w},
                               !.th[k].pipes.err_r = r, !.th[k].pipes.err_w = w,
                               !.th[k].pc = "fork"]
       \/ fn' = [fn EXCEPT !.th[k].response = k, !.th[k].pc = "write"]
       \/ fn' = [fn EXCEPT !.th[k].pc = "close"]
    /\ UNCHANGED << sigv, lisv, mainv, hv, tm, rd >>

\* init.c:623-625, 665: fork, and the parent closes the write end of
\* stdout_pipe; or fork fails and the parent goes to close all four ends
CnFork(k) ==
    /\ fn.unit = "conn" /\ fn.th[k].pc = "fork"
    /\ \/ fn' = [fn EXCEPT !.other = @ \ {fn.th[k].pipes.out_w},
                           !.th[k].pipes.out_w = 0,
                           !.th[k].pc = "close_err_w"]
       \/ fn' = [fn EXCEPT !.th[k].pc = "fork_failed"]
    /\ UNCHANGED << sigv, lisv, mainv, hv, tm, rd >>

\* init.c:626-628: one close of the failed fork's four, in the order of
\* ForkFailCloses; after the last the response "fork failed" is built, or
\* NULL
CnForkFailClose(k) ==
    /\ fn.unit = "conn" /\ fn.th[k].pc = "fork_failed"
    /\ LET e == CHOOSE x \in PipeEnds :
                    /\ fn.th[k].pipes[x] # 0
                    /\ \A i, j \in 1..Len(ForkFailCloses) :
                          ForkFailCloses[j] = x /\ i < j
                              => fn.th[k].pipes[ForkFailCloses[i]] = 0
           closed == [fn EXCEPT !.other = @ \ {fn.th[k].pipes[e]},
                                !.th[k].pipes[e] = 0]
       IN  IF e # ForkFailCloses[Len(ForkFailCloses)]
           THEN fn' = closed
           ELSE \/ fn' = [closed EXCEPT !.th[k].response = k,
                                        !.th[k].pc = "write"]
                \/ fn' = [closed EXCEPT !.th[k].pc = "close"]
    /\ UNCHANGED << sigv, lisv, mainv, hv, tm, rd >>

\* init.c:666: the parent closes the write end of stderr_pipe
CnCloseErrW(k) ==
    /\ fn.unit = "conn" /\ fn.th[k].pc = "close_err_w"
    /\ fn' = [fn EXCEPT !.other = @ \ {fn.th[k].pipes.err_w},
                        !.th[k].pipes.err_w = 0,
                        !.th[k].pc = "supervise"]
    /\ UNCHANGED << sigv, lisv, mainv, hv, tm, rd >>

\* init.c:716: the loop is over, the read end of stdout_pipe is closed
CnCloseOutR(k) ==
    /\ fn.unit = "conn" /\ fn.th[k].pc = "supervise"
    /\ fn' = [fn EXCEPT !.other = @ \ {fn.th[k].pipes.out_r},
                        !.th[k].pipes.out_r = 0,
                        !.th[k].pc = "close_err_r"]
    /\ UNCHANGED << sigv, lisv, mainv, hv, tm, rd >>

\* init.c:717-739: the read end of stderr_pipe is closed and the response
\* is built, or NULL
CnCollect(k) ==
    /\ fn.unit = "conn" /\ fn.th[k].pc = "close_err_r"
    /\ LET closed == [fn EXCEPT !.other = @ \ {fn.th[k].pipes.err_r},
                                !.th[k].pipes = NoPipes]
       IN  \/ fn' = [closed EXCEPT !.th[k].response = k, !.th[k].pc = "write"]
           \/ fn' = [closed EXCEPT !.th[k].pc = "close"]
    /\ UNCHANGED << sigv, lisv, mainv, hv, tm, rd >>

\* init.c:816-819
CnWrite(k) ==
    /\ fn.unit = "conn" /\ fn.th[k].pc = "write"
    /\ fn' = [SysCall(fn, k, fn.th[k].client_fd, "write", fn.th[k].response)
                 EXCEPT !.th[k].pc = "close"]
    /\ UNCHANGED << sigv, lisv, mainv, hv, tm, rd >>

\* init.c:821-822 (and 748-749)
CnClose(k) ==
    /\ fn.unit = "conn" /\ fn.th[k].pc = "close"
    /\ fn' = [SysCall(fn, k, fn.th[k].client_fd, "close", k)
                 EXCEPT !.th[k].pc = "done"]
    /\ UNCHANGED << sigv, lisv, mainv, hv, tm, rd >>

ConnNext ==
    \/ CnAcceptCall \/ CnAccept \/ CnAcceptErr \/ CnSpawn
    \/ \E k \in Accepted :
         \/ CnAllocFail(k) \/ CnRead(k) \/ CnRespond(k)
         \/ CnFileOpen(k) \/ CnFileClose(k)
         \/ CnPipeOut(k) \/ CnPipeErr(k) \/ CnFork(k) \/ CnForkFailClose(k)
         \/ CnCloseErrW(k) \/ CnCloseOutR(k) \/ CnCollect(k)
         \/ CnWrite(k) \/ CnClose(k)

ConnSpec == ConnInit /\ [][ConnNext]_vars

(***************************************************************************)
(* The claims.                                                             *)
(***************************************************************************)
InMainLoop == mpc \in {"loop", "reap"}
Done(h) == hs[h].pc = "done"
\* the handler of the operation has returned to handle_connection
Returned(h) == hs[h].pc \in {"write", "close", "done"}

\* C1: at the moment do_shutdown issues its first kill(-1, SIGTERM) no
\* listening socket is open in the process, whatever the listener thread
\* had done when the shutdown signal arrived.
C1_NoListenerAtSigterm ==
    mpc = "sigterm" => lsock \notin {"listening", "lingering"}

\* the steps of do_shutdown in the order of init.c:896-934
ClaimedOrder ==
    << "close_listener", "sigterm", "sleep", "sigkill", "reap", "sync",
       "/tmp", "/run", "/dev/pts", "/dev", "/sys", "/proc", "sync", "reboot" >>

Range(s) == {s[i] : i \in 1..Len(s)}

\* s is an initial part of t
IsPrefix(s, t) == Len(s) <= Len(t) /\ s = SubSeq(t, 1, Len(s))

\* the steps do_shutdown has completed are in the order of the code, with
\* or without the close of the listener in front (init.c:899)
InShutdownOrder ==
    IsPrefix(steps, ClaimedOrder) \/ IsPrefix(steps, Tail(ClaimedOrder))

\* C2: the steps do_shutdown has completed are always an initial part of
\* close listener, SIGTERM, sleep, SIGKILL, reap, sync, the six unmounts
\* from /tmp to /proc, sync, reboot, each completed once; the close of the
\* listener is left out only when the process has no listener socket, from
\* the SIGTERM broadcast on; all other steps are completed when the process
\* ends; and once the first is completed the main thread is never in
\* main_loop again and the process ends rebooted, powered off or exited.
C2_ShutdownOrder ==
    /\ InShutdownOrder
    /\ ("sigterm" \in Range(steps) /\ "close_listener" \notin Range(steps)
          => lsock \in {"none", "closed"})
    /\ ("close_listener" \in Range(steps)
          => lsock \in {"closed", "lingering"})
    /\ (steps # << >> => ~InMainLoop)
    /\ (InMainLoop \/ mpc = "main_ret" => steps = << >>)
    /\ (mpc \in {"exit", "halted"}
          => steps \in {ClaimedOrder, Tail(ClaimedOrder)})
    /\ (mpc = "halted" <=> final \in {"reboot", "poweroff", "exit"})

\* C3: once SIGTERM or SIGINT has set its flag the reboot primitive is
\* eventually invoked, with RB_POWER_OFF when no SIGINT was received and with
\* RB_AUTOBOOT when no SIGTERM was received, whatever the handlers do.
C3_SignalLeadsToReboot ==
    /\ (shutdown_requested = 1 \/ reboot_requested = 1) ~> (reboot_arg # "none")
    /\ [](reboot_arg # "none" /\ reboot_requested = 0
            => reboot_arg = "RB_POWER_OFF")
    /\ [](reboot_arg # "none" /\ shutdown_requested = 0
            => reboot_arg = "RB_AUTOBOOT")

C3_Witness ==
    /\ reboot_arg = "RB_AUTOBOOT" /\ shutdown_requested = 0
    /\ \E h \in Conns : hs[h].pc = "loop"

\* C4: while the main thread is in main_loop every forked exec child is
\* eventually reaped, by its supervisor or by reap_zombies, and by one of
\* them only.
C4_ChildEventuallyReaped ==
    /\ \A h \in Conns :
         (ch[h].st \in {"running", "zombie"}) ~> (ch[h].st = "reaped" \/ ~InMainLoop)
    /\ [](\A h \in Conns :
            /\ (ch[h].st = "reaped" <=> ch[h].by # "none")
            /\ (ch[h].st = "reaped" /\ steps = << >> => ch[h].by \in {"sup", "main"}))

C4_Witness ==
    \E h \in Conns : ch[h].st = "reaped" /\ ch[h].by = "main" /\ InMainLoop
                     /\ hs[h].pc = "chk"

\* C5: the exit_code of an exec response is the child's exit status when it
\* exited normally and -1 when a signal terminated it.
C5_ExitCodeIsChildStatus ==
    \A h \in Conns :
        Done(h) /\ hs[h].resp.tag = "exec" =>
            /\ ch[h].st = "reaped"
            /\ hs[h].resp.code = {ExitCode(ch[h].status)}

\* C6: a handler that has ended has read and parsed the request, then written
\* one response, then closed the socket.
C6_OneResponseThenClose ==
    \A h \in Conns :
        Done(h) => hs[h].ev = << "read", "parse", "write", "close" >>

\* C7: a forked exec that answers answers success:true with the exit code;
\* no error envelope follows a fork.
C7_ForkedAlwaysSuccess ==
    \A h \in Conns :
        Done(h) /\ hs[h].forked /\ hs[h].resp # NullResp
            => hs[h].resp.ok /\ hs[h].resp.tag = "exec"

\* C8: the child is killed only when more than timeout_ms milliseconds have
\* passed since start was taken.
C8_NoEarlyKill ==
    tm.pc = "killed" => tm.killed_at - tm.t0 > tm.tmo

\* C9: a forked exec returns with an exit code in 0..255 or -1 and with
\* none of its four pipe ends open.
C9_ExitCodeAndNoPipes ==
    \A h \in Conns :
        Returned(h) /\ hs[h].forked =>
            /\ \E c \in (0..255) \cup {-1} : hs[h].exit_code = {c}
            /\ hs[h].pipes = {}

\* C10: a request longer than the maximum is answered with an error and not
\* dispatched, no byte beyond the maximum is read, and a request of exactly
\* the maximum that ends in a newline is read to its end.
C10_OversizeRejected ==
    rd.pc = "dispatched" =>
        /\ (rd.len > MAX_REQUEST_SIZE => ~rd.resp.ok)
        /\ rd.total <= MAX_REQUEST_SIZE
        /\ (rd.len = MAX_REQUEST_SIZE /\ rd.nl = rd.len => rd.total = rd.len)

C12_DecodeEncode ==
    fn.unit = "codec" /\ fn.pc = "decoded" =>
        /\ fn.dec.ok
        /\ fn.dec.out = fn.b
        /\ fn.dec.outside = {}

\* C13: when both signals are delivered before the shutdown sequence starts
\* the final action is that of the flag set first (SIGTERM first: power-off,
\* SIGINT first: reboot), and a flag that was set stays set.
C13_FirstFlagWins ==
    /\ (obs.first = "SIGTERM" => shutdown_requested = 1)
    /\ (obs.first = "SIGINT" => reboot_requested = 1)
    /\ (reboot_arg # "none" =>
          reboot_arg = IF obs.first = "SIGINT" THEN "RB_AUTOBOOT"
                       ELSE "RB_POWER_OFF")

\* C14: once main_loop has returned, a signal delivered later changes neither
\* the final action, which is the one the flags called for when main_loop
\* returned, nor the steps of the shutdown.
C14_LateSignalIgnored ==
    /\ (reboot_arg # "none" =>
          reboot_arg = IF obs.at_return = {1} THEN "RB_AUTOBOOT"
                       ELSE "RB_POWER_OFF")
    /\ InShutdownOrder

\* C15: when do_shutdown goes from the reap after the SIGKILL broadcast to the
\* first sync, no child that SIGKILL was sent to is left: each has terminated
\* and has been reaped.  (A child forked after the broadcast is not counted.)
C15_NoChildAtSync ==
    [][mpc = "reap_final" /\ mpc' = "sync1" =>
         \A h \in Conns :
             /\ ch[h].st # "zombie"
             /\ ~(ch[h].st = "running" /\ ch[h].pending \in {SIGTERM, SIGKILL})]_vars

\* C16: the connection is closed only after every byte of the response, the
\* final newline included, has been written: a write that takes only a part
\* is followed by writes of the rest.
C16_WholeResponseWritten ==
    fn.unit = "write" /\ fn.pc = "closed" /\ ~fn.failed => fn.sent = fn.len

\* C17: a response is one line, its only newline being its last byte, and
\* the string value embedded in it is the escape of the raw value.
C17_OneLineEscaped ==
    fn.unit = "envelope" /\ fn.pc = "formatted" =>
        /\ fn.resp # << >>
        /\ {i \in DOMAIN fn.resp : fn.resp[i] = "\n"} = {Len(fn.resp)}
        /\ fn.embedded = json_escape(fn.raw)

\* C18: a request without a field its operation requires is answered with
\* the error "missing " and the name of that field, and no call on a file or
\* a process is made.
C18_MissingFieldNamed ==
    fn.unit = "dispatch" /\ fn.pc = "closed" =>
        LET missing(field) == /\ fn.resp = ErrResp("missing " \o field)
                              /\ fn.calls \cap FileOrProcessCalls = {}
        IN  /\ (fn.op \in {"file_read", "file_stat", "file_delete", "file_write"}
                  /\ ~fn.has_path => missing("path"))
            /\ (fn.op = "file_write" /\ fn.has_path /\ ~fn.has_content
                  => missing("content"))
            /\ (fn.op = "exec" /\ fn.cmd = "missing" => missing("cmd"))

\* C19: a child that writes more than the output buffer holds never stays
\* blocked on a full pipe, and is reported with the exit code it ended
\* with, not killed.
C19_OutputOverCapacity ==
    fn.unit = "drain" =>
        /\ ~Stuck
        /\ (fn.pc = "done" => fn.exit_code = {fn.code})

\* C20: an exec request with a negative timeout field is supervised with the
\* default of 30000 ms, its child not being killed before that, and the
\* supervisor has made a non-blocking reap attempt before any SIGKILL, with
\* timeout 0 too.
C20_NegativeIsDefault ==
    tm.pc = "killed" =>
        /\ tm.polled
        /\ (tm.field # {} /\ json_get_int(tm.field, 0) < 0 =>
              tm.killed_at - tm.t0 >= DEFAULT_TIMEOUT_MS)

\* C22: once a lifecycle flag is set and do_shutdown has closed the listener
\* socket under a listener blocked in accept, that accept eventually returns
\* although no connection arrives, which the listener needs to reach the
\* test that ends its loop; and no return of accept by itself takes the
\* listener out of the loop.
C22_ListenerLeavesLoop ==
    /\ (/\ shutdown_requested = 1 \/ reboot_requested = 1
        /\ lsock = "lingering" /\ lpc = "in_accept") ~> (lpc # "in_accept")
    /\ [][lpc = "in_accept" => lpc' # "done"]_vars

\* C23: after do_shutdown has issued its first kill(-1, SIGTERM) the
\* listener accepts no connection and starts no handler.
TermBroadcast == \E i \in DOMAIN steps : steps[i] = "sigterm"
C23_NoHandlerAfterBroadcast ==
    [][TermBroadcast =>
         /\ (lpc' = "spawn" => lpc = "spawn")
         /\ \A h \in Conns : hs'[h].pc = "start" => hs[h].pc = "start"]_vars

\* C24: the listener issues no system call (bind, listen, accept, close)
\* with a value of vsock_fd whose descriptor do_shutdown has already closed.
C24_NoCallOnClosedListener ==
    [][(lpc \in {"bind", "listen", "accept"} /\ lpc' # lpc)
           => ~(vsock_fd >= 0 /\ lsock = "closed")]_vars

\* C25: the exec supervisor sends SIGKILL on timeout only to a child that
\* has not been reaped yet.
C25_KillOnlyUnreaped ==
    [][\A h \in Conns :
         hs[h].pc = "chk" /\ hs'[h].pc = "kill_wait"
             => ch[h].st \in {"running", "zombie"}]_vars

\* C26: an exec request that returns without a child having been forked
\* leaves no pipe descriptor open.
C26_NoPipeLeftBeforeFork ==
    \A h \in Conns :
        Returned(h) /\ hs[h].op = "exec" /\ ~hs[h].forked => hs[h].pipes = {}

\* the task that may act on connection k
Owner(k) == IF fn.th[k].pc = "dropped" THEN LISTENER ELSE k
InHandler(k) ==
    fn.th[k].pc \in {"read", "respond", "file_close", "pipe_err", "fork",
                     "fork_failed", "close_err_w", "supervise", "close_err_r",
                     "write", "close"}

\* every read, write and close that reaches a connection is issued by one
\* task, the connection's handler, or the listener (a close only) when the
\* handler could not be started; the bytes written to a connection are of
\* its own response; it is closed once when its task has ended and not
\* before; and no call of a task on a connection's number goes astray
ConnOwned ==
    /\ fn.stray = {}
    /\ \A k \in Accepted :
         LET u == fn.use[k] IN
         /\ \A c \in u.by : c[1] = Owner(k)
         /\ (Owner(k) = LISTENER => u.by \subseteq {<< LISTENER, "close" >>})
         /\ u.bytes_of \subseteq {k}
         /\ u.writes <= 1 /\ u.closes <= 1
         /\ (fn.th[k].pc \in {"done", "dropped"} =>
               u.closes = 1 /\ \A n \in Fds : fn.open[n] # k)
         /\ (InHandler(k) =>
               /\ fn.open[fn.th[k].client_fd] = k /\ u.closes = 0
               /\ fn.th[k].client_fd \notin fn.other)

\* C21: every connection is read, written and closed by one task only, its
\* handler (the listener, with a close only, when the handler could not be
\* started); a handler that has ended has read its connection, written it
\* exactly once, with bytes of its own response only, and closed it exactly
\* once; and no task uses a connection's number after the close.
C21_OneOwnerPerConnection ==
    fn.unit = "conn" =>
        /\ ConnOwned
        /\ \A k \in Accepted :
             fn.th[k].pc = "done" =>
                 /\ << k, "read" >> \in fn.use[k].by
                 /\ fn.use[k].writes = 1
                 /\ fn.use[k].closes = 1

====
